---- MODULE Spec2Model ----
(***************************************************************************)
(* A model of notescan.py: the colour quantizer, the RGB packer, the       *)
(* background (mode) estimator, the saturation/value transform, the        *)
(* background mask, the palette learner (encode / nearest) and smoosh,     *)
(* the per-image pipeline that composes them.                              *)
(*                                                                         *)
(* numpy arrays are sequences; an (n,3) array of pixels is a sequence of   *)
(* triples <<r, g, b>>.  The functions are operators computed as the code  *)
(* computes them (integer shifts, bitwise or/and, truncating casts), and   *)
(* each specification below calls one of them, or runs smoosh step by      *)
(* step, on inputs drawn from bounded sets.                                *)
(***************************************************************************)
EXTENDS Integers, Sequences, FiniteSets, TLC

VARIABLES
    pc,        \* where the modelled call stands
    arg,       \* the arguments of the call (a record), or the image and options of smoosh
    ret,       \* the value a function-level call returned
    bg_color,  \* smoosh: the estimated background colour
    bg,        \* smoosh: the background mask, one boolean per pixel
    labels,    \* smoosh: the labels encode returned (one per foreground pixel)
    palette,   \* smoosh: the palette (encode's, then the post-processed one)
    biglabels  \* smoosh: the label map, one palette index per pixel

vars == <<pc, arg, ret, bg_color, bg, labels, palette, biglabels>>

\* The value of a variable that the running call has not assigned yet.
Unset == <<>>

----------------------------------------------------------------------------
(* Integer helpers standing for Python's / numpy's operators on int. *)

Pow2(n) == 2 ^ n

\* a << n
Shl(a, n) == a * Pow2(n)

\* a >> n  (a >= 0)
Shr(a, n) == a \div Pow2(n)

RECURSIVE BitOr(_, _)
\* a | b  (a, b >= 0)
BitOr(a, b) ==
    IF a = 0 THEN b
    ELSE IF b = 0 THEN a
    ELSE (IF a % 2 = 1 \/ b % 2 = 1 THEN 1 ELSE 0) + 2 * BitOr(a \div 2, b \div 2)

RECURSIVE BitAnd(_, _)
\* a & b  (a, b >= 0)
BitAnd(a, b) ==
    IF a = 0 \/ b = 0 THEN 0
    ELSE (IF a % 2 = 1 /\ b % 2 = 1 THEN 1 ELSE 0) + 2 * BitAnd(a \div 2, b \div 2)

\* ndarray.astype(np.uint8) of a non-negative integer: the low eight bits.
astype_uint8(v) == v % 256

Abs(x) == IF x < 0 THEN -x ELSE x

Max2(a, b) == IF a >= b THEN a ELSE b

Min2(a, b) == IF a <= b THEN a ELSE b

\* The pixels of an (n,3) array as a set, and sums over a sequence.
Range(s) == {s[i] : i \in DOMAIN s}

RECURSIVE SumSeq(_)
SumSeq(s) == IF s = <<>> THEN 0 ELSE Head(s) + SumSeq(Tail(s))

----------------------------------------------------------------------------
(* quantize, src/notescan.py:15-26 *)

\* bits_per_channel when the caller passes None.
DefaultBits == 6

\* One element of the returned array: (((v + halfbin) >> shift) << shift) + halfbin.
quantize_channel(v, bits_per_channel) ==
    LET shift   == 8 - bits_per_channel
        halfbin == Shl(1, shift - 1)
    IN  Shl(Shr(v + halfbin, shift), shift) + halfbin

\* quantize on an (n,3) uint8 array; the result is an int array of the same shape.
quantize(image, bits_per_channel) ==
    [i \in DOMAIN image |->
        [c \in DOMAIN image[i] |-> quantize_channel(image[i][c], bits_per_channel)]]

----------------------------------------------------------------------------
(* pack_rgb and unpack_rgb, src/notescan.py:30-70 *)

\* rgb[:,0] | rgb[:,1] << 8 | rgb[:,2] << 16 for one row.
pack_rgb(rgb) == BitOr(BitOr(rgb[1], Shl(rgb[2], 8)), Shl(rgb[3], 16))

unpack_rgb_bad_shift(packed) ==
    << BitAnd(packed, 255), BitAnd(Shr(packed, 8), 255), BitAnd(Shr(packed, 8), 255) >>

\* (packed & 0xff, (packed >> 8) & 0xff, (packed >> 16) & 0xff)
unpack_rgb(packed) ==
    << BitAnd(packed, 255), BitAnd(Shr(packed, 8), 255), BitAnd(Shr(packed, 16), 255) >>

----------------------------------------------------------------------------
(* get_bg_color, src/notescan.py:74-85 *)

\* np.unique(packed, return_counts=True): the distinct values, and for each
\* its number of occurrences.
unique(packed) == Range(packed)

counts(packed, u) == Cardinality({i \in DOMAIN packed : packed[i] = u})

\* unique[counts.argmax()]: np.unique sorts ascending and argmax returns the
\* first maximum, so the smallest packed value among the most frequent.
packed_mode(packed) ==
    CHOOSE u \in unique(packed) :
        \A w \in unique(packed) :
            \/ counts(packed, u) > counts(packed, w)
            \/ (counts(packed, u) = counts(packed, w) /\ u <= w)

get_bg_color(image, bits_per_channel) ==
    LET quantized == quantize(image, bits_per_channel)
        packed    == [i \in DOMAIN quantized |-> pack_rgb(quantized[i])]
    IN  unpack_rgb(packed_mode(packed))

----------------------------------------------------------------------------
(* rgb_to_sv, src/notescan.py:89-104, and the mask of smoosh, 166-174.     *)
(* S and V are float32 in the code; here they are exact fractions          *)
(* [num, den], and a threshold is a whole number of percent (the options   *)
(* are given in percent and divided by 100).                               *)

Cmax(rgb) == Max2(rgb[1], Max2(rgb[2], rgb[3]))

Cmin(rgb) == Min2(rgb[1], Min2(rgb[2], rgb[3]))

\* S = delta / Cmax, replaced by 0 where Cmax == 0; V = Cmax / 255.
rgb_to_sv(rgb) ==
    [S |-> IF Cmax(rgb) = 0 THEN [num |-> 0, den |-> 1]
           ELSE [num |-> Cmax(rgb) - Cmin(rgb), den |-> Cmax(rgb)],
     V |-> [num |-> Cmax(rgb), den |-> 255]]

\* np.abs(x - y) < percent / 100 for fractions x and y.
DiffBelow(x, y, percent) ==
    100 * Abs(x.num * y.den - y.num * x.den) < percent * x.den * y.den

background_mask_flipped(img, bgc, opts) ==
    [i \in DOMAIN img |->
        /\ ~ DiffBelow(rgb_to_sv(img[i]).V, rgb_to_sv(bgc).V, opts.value_threshold)
        /\ DiffBelow(rgb_to_sv(img[i]).S, rgb_to_sv(bgc).S, opts.sat_threshold)]

\* bg = (V_diff < options.value_threshold) & (S_diff < options.sat_threshold)
background_mask(img, bgc, opts) ==
    [i \in DOMAIN img |->
        /\ DiffBelow(rgb_to_sv(img[i]).V, rgb_to_sv(bgc).V, opts.value_threshold)
        /\ DiffBelow(rgb_to_sv(img[i]).S, rgb_to_sv(bgc).S, opts.sat_threshold)]

----------------------------------------------------------------------------
(* nearest, src/notescan.py:108-122.                                       *)
(* A centre is a row of the float array kmeans returns.  Each row is the   *)
(* mean of some observations, so it is kept as the fraction s / n: the     *)
(* channel sums s and the count n.                                         *)

\* centers.astype(int) for one row: the cast truncates.
center_astype_int(center) == [c \in 1 .. 3 |-> center.s[c] \div center.n]

\* ((pixels - centers[i])**2).sum(axis=1) for one pixel, on the int arrays.
dist(pixel, icenter) == SumSeq([c \in 1 .. 3 |-> (pixel[c] - icenter[c]) * (pixel[c] - icenter[c])])

\* dists.argmin(axis=1) for one pixel: the first index of the minimum, 0-based.
argmin(d) ==
    (CHOOSE i \in DOMAIN d :
        /\ \A j \in DOMAIN d : d[i] <= d[j]
        /\ \A j \in DOMAIN d : j < i => d[j] > d[i]) - 1

nearest(pixels, centers) ==
    [p \in DOMAIN pixels |->
        argmin([i \in DOMAIN centers |-> dist(pixels[p], center_astype_int(centers[i]))])]

----------------------------------------------------------------------------
(* encode, src/notescan.py:126-143 *)

\* int(round(num_pixels * options.quantize_fraction)): Python 2's round, half
\* away from zero, of a non-negative number; the fraction is a whole number of
\* percent.
num_train(num_pixels, opts) == (2 * num_pixels * opts.quantize_fraction + 100) \div 200

\* idx[:num_train] after np.random.shuffle(idx): any num_train of the indices.
TrainIndexSets(num_pixels, opts) ==
    {T \in SUBSET (1 .. num_pixels) : Cardinality(T) = num_train(num_pixels, opts)}

RECURSIVE SumOver(_, _, _)
\* The sum of channel c of the pixels indexed by T.
SumOver(pixels, T, c) ==
    IF T = {} THEN 0
    ELSE LET i == CHOOSE j \in T : TRUE
         IN  pixels[i][c] + SumOver(pixels, T \ {i}, c)

\* The mean of the observations indexed by T.
MeanOf(pixels, T) == [s |-> [c \in 1 .. 3 |-> SumOver(pixels, T, c)], n |-> Cardinality(T)]

\* The surjections from S onto 1..m.
Surjections(S, m) == {f \in [S -> 1 .. m] : \A i \in 1 .. m : \E x \in S : f[x] = i}

\* scipy.cluster.vq.kmeans(train, k, iter=40) as encode calls it, where train
\* is fg_pixels at the indices T.  The library is not part of the source; this
\* is its contract.  It raises ValueError for k < 1 and for no observations.
\* Otherwise it returns a code book in which every row is the mean of the
\* observations of one non-empty cell, the cells partitioning the
\* observations; equal observations share a cell, and cells without members
\* are dropped, so there are between 1 and min(k, distinct observations) rows,
\* in an order that depends on the random initial code book.  With fewer
\* observations than k, releases that draw the initial code book without
\* replacement raise ValueError and the others return the smaller code book.
kmeans(pixels, T, k) ==
    LET D == {pixels[i] : i \in T}
        books ==
            UNION {
                { [i \in 1 .. m |-> MeanOf(pixels, {j \in T : f[pixels[j]] = i})] :
                    f \in Surjections(D, m) } :
                m \in 1 .. Min2(k, Cardinality(D)) }
    IN  IF k < 1 \/ T = {}
        THEN {[raised |-> TRUE]}
        ELSE (IF Cardinality(T) < k THEN {[raised |-> TRUE]} ELSE {})
             \cup {[raised |-> FALSE, centers |-> b] : b \in books}

\* np.vstack((bg_color, centers)).astype(np.uint8)
encode_palette(bgc, centers) ==
    <<[c \in 1 .. 3 |-> astype_uint8(bgc[c])]>>
    \o [i \in DOMAIN centers |-> [c \in 1 .. 3 |-> astype_uint8(center_astype_int(centers[i])[c])]]

\* Everything encode can do: raise out of kmeans, or return (labels + 1, palette).
encode(bgc, fg_pixels, opts) ==
    UNION {
        { IF km.raised
          THEN [raised |-> TRUE]
          ELSE [raised  |-> FALSE,
                centers |-> km.centers,
                labels  |-> [p \in DOMAIN fg_pixels |-> nearest(fg_pixels, km.centers)[p] + 1],
                palette |-> encode_palette(bgc, km.centers)] :
            km \in kmeans(fg_pixels, T, opts.num_colors - 1) } :
        T \in TrainIndexSets(Len(fg_pixels), opts) }

----------------------------------------------------------------------------
(* smoosh, src/notescan.py:147-200.  An image is [w, h, px] with px the    *)
(* pixels row by row.                                                      *)

ds_factor == 4

RECURSIVE SelectFrom(_, _, _)
\* array[keep] for a boolean index: the kept elements from index i on, in order.
SelectFrom(px, keep, i) ==
    IF i > Len(px) THEN <<>>
    ELSE (IF keep[i] THEN <<px[i]>> ELSE <<>>) \o SelectFrom(px, keep, i + 1)

\* img[::ds_factor, ::ds_factor]
downsampled(img) ==
    SelectFrom(img.px,
               [i \in DOMAIN img.px |->
                   /\ ((i - 1) \div img.w) % ds_factor = 0
                   /\ ((i - 1) % img.w) % ds_factor = 0],
               1)

\* img[~bg]
foreground(img, mask) == SelectFrom(img.px, [i \in DOMAIN mask |-> ~ mask[i]], 1)

\* biglabels = np.zeros(...); biglabels[~bg] = labels.flatten()
scatter_labels(mask, fg_labels) ==
    [i \in DOMAIN mask |->
        IF mask[i] THEN 0
        ELSE fg_labels[Cardinality({j \in 1 .. i : ~ mask[j]})]]

PaletteValues(pal) == {pal[i][c] : i \in DOMAIN pal, c \in 1 .. 3}

SetMin(S) == CHOOSE x \in S : \A y \in S : x <= y

SetMax(S) == CHOOSE x \in S : \A y \in S : x >= y

\* Lines 184-193: the palette that is written, for each value the build gives
\* a NaN cast to uint8.  With saturate, palette = 255 * (palette - pmin) /
\* (pmax - pmin) in float32; pmax == pmin makes every entry 0/0 = NaN, and
\* astype(np.uint8) of NaN is undefined: one value x for all of them.  Then
\* white_bg overwrites entry 0, and the cast to uint8 truncates.
postprocess(pal, opts) ==
    LET pmin == SetMin(PaletteValues(pal))
        pmax == SetMax(PaletteValues(pal))
        nan  == opts.saturate /\ pmax = pmin
    IN  { [i \in DOMAIN pal |->
            IF opts.white_bg /\ i = 1 THEN <<255, 255, 255>>
            ELSE [c \in 1 .. 3 |->
                    IF nan THEN x
                    ELSE IF opts.saturate
                         THEN astype_uint8((255 * (pal[i][c] - pmin)) \div (pmax - pmin))
                         ELSE pal[i][c]]] :
          x \in (IF nan THEN 0 .. 255 ELSE {0}) }

----------------------------------------------------------------------------
(* Inputs of the function-level specifications. *)

\* How many channel values next to each end of 0..255 the sampled inputs take.
ChanEdge == 2

\* Channel values for inputs that range over triples: both ends of the
\* uint8 range and the middle.
SampleChannels == (0 .. ChanEdge) \cup ((255 - ChanEdge) .. 255) \cup {127, 128}

\* The variables of smoosh, untouched by a function-level call.
NoPipeline ==
    /\ bg_color = Unset
    /\ bg = Unset
    /\ labels = Unset
    /\ palette = Unset
    /\ biglabels = Unset

PipelineUnchanged == UNCHANGED <<bg_color, bg, labels, palette, biglabels>>

----------------------------------------------------------------------------
(* SpecQuantize: quantize called on a one-pixel uint8 image, and called   *)
(* again on its own result.                                                *)

InitQuantize ==
    /\ pc = "call"
    /\ arg \in [image : {<< <<r, g, b>> >> : r \in 0 .. 255, g \in {0, 255}, b \in {0, 255}},
                bits_per_channel : {DefaultBits}]
    /\ ret = Unset
    /\ NoPipeline

\* quantize(image, bits_per_channel)
QuantizeCall ==
    /\ pc = "call"
    /\ ret' = quantize(arg.image, arg.bits_per_channel)
    /\ pc' = "returned"
    /\ UNCHANGED arg
    /\ PipelineUnchanged

\* quantize called on the quantized image.  quantize asserts a uint8 array and
\* returns an int array, so the caller casts the result back to uint8 first.
QuantizeAgain ==
    /\ pc = "returned"
    /\ arg' = [arg EXCEPT !.image =
                 [i \in DOMAIN ret |-> [c \in DOMAIN ret[i] |-> astype_uint8(ret[i][c])]]]
    /\ ret' = quantize(arg'.image, arg.bits_per_channel)
    /\ pc' = "requantized"
    /\ PipelineUnchanged

NextQuantize == QuantizeCall \/ QuantizeAgain

SpecQuantize == InitQuantize /\ [][NextQuantize]_vars

\* The bucket size for a bit depth, and the centre of the bucket holding v:
\* buckets are [0,B), [B,2B), ... and their centres B/2, B/2 + B, ...
BucketSize(bits) == Pow2(8 - bits)

BucketCenters(bits) ==
    {k * BucketSize(bits) + BucketSize(bits) \div 2 : k \in 0 .. (Pow2(bits) - 1)}

ContainingCenter(v, bits) ==
    (v \div BucketSize(bits)) * BucketSize(bits) + BucketSize(bits) \div 2

\* The centre nearest to v, the upper one on an exact tie.
NearestCenter(v, bits) ==
    CHOOSE c \in BucketCenters(bits) :
        \A d \in BucketCenters(bits) :
            \/ Abs(c - v) < Abs(d - v)
            \/ (Abs(c - v) = Abs(d - v) /\ c >= d)

\* C2 (as claimed): quantizing an already-quantized image at the same bit
\* depth yields the identical image: quantize(quantize(v)) = quantize(v).
C2_QuantizeIdempotent ==
    pc = "requantized" => ret = arg.image

\* C7 (as claimed): every channel of the result is the centre of the bucket
\* containing the input value, which is the nearest bucket centre (upper one
\* on a tie), and it stays within 0..255.
C7_QuantizeNearestCenter ==
    pc = "returned" =>
        \A i \in DOMAIN ret : \A c \in DOMAIN ret[i] :
            /\ ret[i][c] = ContainingCenter(arg.image[i][c], arg.bits_per_channel)
            /\ ret[i][c] = NearestCenter(arg.image[i][c], arg.bits_per_channel)
            /\ ret[i][c] \in 0 .. 255

----------------------------------------------------------------------------
(* SpecPack: pack_rgb and unpack_rgb, each followed by the other.          *)

PackedSamples ==
    {r + 256 * g + 65536 * b : r \in SampleChannels, g \in SampleChannels, b \in SampleChannels}

InitPack ==
    /\ pc = "call"
    /\ arg \in [rgb : SampleChannels \X SampleChannels \X SampleChannels]
               \cup [packed : PackedSamples]
    /\ ret = Unset
    /\ NoPipeline

\* pack_rgb(rgb)
PackCall ==
    /\ pc = "call"
    /\ "rgb" \in DOMAIN arg
    /\ ret' = pack_rgb(arg.rgb)
    /\ pc' = "packed"
    /\ UNCHANGED arg
    /\ PipelineUnchanged

\* unpack_rgb(pack_rgb(rgb))
UnpackPacked ==
    /\ pc = "packed"
    /\ ret' = unpack_rgb(ret)
    /\ pc' = "rgb_roundtrip"
    /\ UNCHANGED arg
    /\ PipelineUnchanged

\* unpack_rgb(packed)
UnpackCall ==
    /\ pc = "call"
    /\ "packed" \in DOMAIN arg
    /\ ret' = unpack_rgb(arg.packed)
    /\ pc' = "unpacked"
    /\ UNCHANGED arg
    /\ PipelineUnchanged

\* pack_rgb(unpack_rgb(packed))
PackUnpacked ==
    /\ pc = "unpacked"
    /\ ret' = pack_rgb(ret)
    /\ pc' = "packed_roundtrip"
    /\ UNCHANGED arg
    /\ PipelineUnchanged

NextPack == PackCall \/ UnpackPacked \/ UnpackCall \/ PackUnpacked

SpecPack == InitPack /\ [][NextPack]_vars

\* C6: unpack_rgb(pack_rgb(c)) = c for channels in 0..255, pack_rgb(unpack_rgb(x)) = x
\* for x below 2^24, with red in the low byte, green in the middle byte and
\* blue in the high byte.
C6_PackUnpackInverse ==
    /\ pc = "rgb_roundtrip" => ret = arg.rgb
    /\ pc = "packed_roundtrip" => ret = arg.packed
    /\ pc = "packed" => ret = arg.rgb[1] + 256 * arg.rgb[2] + 65536 * arg.rgb[3]
    /\ pc = "unpacked" =>
          /\ ret[1] = arg.packed % 256
          /\ ret[2] = (arg.packed \div 256) % 256
          /\ ret[3] = (arg.packed \div 65536) % 256

\* The round trip has run on a triple whose three channels differ.
C6_Witness ==
    /\ pc = "rgb_roundtrip"
    /\ arg.rgb = <<255, 0, 128>>
    /\ ret = <<255, 0, 128>>

----------------------------------------------------------------------------
(* SpecBg: get_bg_color called on a small image.                           *)

\* The longest image (in pixels) given to get_bg_color.
MaxBgPixels == 3

BgPixels ==
    { <<200, 200, 200>>, <<201, 201, 201>>, <<10, 10, 10>>,
      <<255, 255, 255>>, <<254, 0, 1>>, <<0, 0, 0>> }

\* The sequences over S of length lo..hi.
SeqsBetween(S, lo, hi) == UNION {[1 .. n -> S] : n \in lo .. hi}

InitBg ==
    /\ pc = "call"
    /\ arg \in [image : SeqsBetween(BgPixels, 1, MaxBgPixels), bits_per_channel : {DefaultBits}]
    /\ ret = Unset
    /\ NoPipeline

\* get_bg_color(image, bits_per_channel)
GetBgColorCall ==
    /\ pc = "call"
    /\ ret' = get_bg_color(arg.image, arg.bits_per_channel)
    /\ pc' = "returned"
    /\ UNCHANGED arg
    /\ PipelineUnchanged

NextBg == GetBgColorCall

SpecBg == InitBg /\ [][NextBg]_vars

\* How often the quantized colour q occurs in the image.
QuantizedCount(image, bits, q) ==
    Cardinality({i \in DOMAIN image : quantize(image, bits)[i] = q})

\* q occurs strictly more often than every other quantized colour.
Dominates(image, bits, q) ==
    \A i \in DOMAIN image :
        quantize(image, bits)[i] # q =>
            QuantizedCount(image, bits, q) > QuantizedCount(image, bits, quantize(image, bits)[i])

\* C1 (as claimed): when one quantized colour occurs strictly more often than
\* every other, get_bg_color returns exactly that quantized colour, a member
\* of the quantized colour domain, also for channel values 254 and 255.
C1_ModeIsDominantColor ==
    pc = "returned" =>
        \A i \in DOMAIN arg.image :
            LET q == quantize(arg.image, arg.bits_per_channel)[i]
            IN  Dominates(arg.image, arg.bits_per_channel, q) =>
                    /\ ret = q
                    /\ \A c \in 1 .. 3 : ret[c] \in BucketCenters(arg.bits_per_channel)

----------------------------------------------------------------------------
(* SpecMask: the mask of smoosh computed for an image, a background colour *)
(* and two thresholds, then computed again with one threshold raised.      *)

\* The longest image (in pixels) given to the mask.
MaxMaskPixels == 2

MaskPixels ==
    { <<200, 200, 200>>, <<10, 10, 10>>, <<255, 0, 0>>,
      <<202, 202, 150>>, <<0, 0, 0>>, <<140, 150, 160>> }

MaskBgColors == { <<202, 202, 202>>, <<2, 2, 2>>, <<254, 254, 202>> }

\* Thresholds in percent; 25 and 20 are the defaults of -v and -s.
Thresholds == {0, 20, 25, 60, 100}

InitMask ==
    /\ pc = "call"
    /\ arg \in [img : SeqsBetween(MaskPixels, 1, MaxMaskPixels),
                bg_color : MaskBgColors,
                value_threshold : Thresholds,
                sat_threshold : Thresholds]
    /\ ret = Unset
    /\ NoPipeline

\* The mask for the image and options.
MaskCall ==
    /\ pc = "call"
    /\ bg' = background_mask(arg.img, arg.bg_color, arg)
    /\ pc' = "masked"
    /\ UNCHANGED <<arg, ret, bg_color, labels, palette, biglabels>>

\* The same image run with a larger value threshold; ret keeps the earlier mask.
RaiseValueThreshold ==
    /\ pc = "masked"
    /\ \E t \in Thresholds :
        /\ t > arg.value_threshold
        /\ arg' = [arg EXCEPT !.value_threshold = t]
    /\ ret' = bg
    /\ bg' = background_mask(arg'.img, arg'.bg_color, arg')
    /\ pc' = "raised"
    /\ UNCHANGED <<bg_color, labels, palette, biglabels>>

\* The same image run with a larger saturation threshold.
RaiseSatThreshold ==
    /\ pc = "masked"
    /\ \E t \in Thresholds :
        /\ t > arg.sat_threshold
        /\ arg' = [arg EXCEPT !.sat_threshold = t]
    /\ ret' = bg
    /\ bg' = background_mask(arg'.img, arg'.bg_color, arg')
    /\ pc' = "raised"
    /\ UNCHANGED <<bg_color, labels, palette, biglabels>>

NextMask == MaskCall \/ RaiseValueThreshold \/ RaiseSatThreshold

SpecMask == InitMask /\ [][NextMask]_vars

NumTrue(m) == Cardinality({i \in DOMAIN m : m[i]})

\* C10: raising one threshold with the other fixed never turns a background
\* pixel into a foreground pixel, so the number of background pixels never
\* decreases.
C10_MaskMonotone ==
    pc = "raised" =>
        /\ \A i \in DOMAIN ret : ret[i] => bg[i]
        /\ NumTrue(bg) >= NumTrue(ret)

\* Raising a threshold has turned a foreground pixel into a background pixel
\* while another pixel stayed background.
C10_Witness ==
    /\ pc = "raised"
    /\ Len(bg) = 2
    /\ ret[1] /\ bg[1]
    /\ ~ ret[2] /\ bg[2]

----------------------------------------------------------------------------
(* SpecNearest: nearest called on a few pixels and a list of centres.      *)

\* The longest pixel array and the longest list of centres given to nearest.
MaxNearestPixels == 2

MaxCenters == 3

NearestPixels == { <<10, 0, 0>>, <<9, 0, 0>>, <<12, 3, 0>> }

\* Means of integer pixels: (10.5,0,0), (9.5,0,0), (10,0,0), (12,3,0) and
\* (10.67,0.33,0).
CenterSamples ==
    { [s |-> <<21, 0, 0>>, n |-> 2], [s |-> <<19, 0, 0>>, n |-> 2],
      [s |-> <<10, 0, 0>>, n |-> 1], [s |-> <<12, 3, 0>>, n |-> 1],
      [s |-> <<32, 1, 0>>, n |-> 3] }

InitNearest ==
    /\ pc = "call"
    /\ arg \in [pixels : SeqsBetween(NearestPixels, 1, MaxNearestPixels),
                centers : SeqsBetween(CenterSamples, 1, MaxCenters)]
    /\ ret = Unset
    /\ NoPipeline

\* nearest(pixels, centers)
NearestCall ==
    /\ pc = "call"
    /\ ret' = nearest(arg.pixels, arg.centers)
    /\ pc' = "returned"
    /\ UNCHANGED arg
    /\ PipelineUnchanged

NextNearest == NearestCall

SpecNearest == InitNearest /\ [][NextNearest]_vars

\* The squared Euclidean distance from a pixel to a centre s / n, times n^2.
ScaledDist(pixel, center) ==
    SumSeq([c \in 1 .. 3 |->
        (center.n * pixel[c] - center.s[c]) * (center.n * pixel[c] - center.s[c])])

\* Centre a is at most as far from the pixel as centre b (strictly nearer).
NoFarther(pixel, a, b) == ScaledDist(pixel, a) * b.n * b.n <= ScaledDist(pixel, b) * a.n * a.n

Nearer(pixel, a, b) == ScaledDist(pixel, a) * b.n * b.n < ScaledDist(pixel, b) * a.n * a.n

\* C8 (as claimed): each label is the index of a centre at minimal squared
\* Euclidean distance from the pixel, the centres taken with their fractional
\* coordinates, and the lowest such index on a tie.
C8_NearestIsClosest ==
    pc = "returned" =>
        \A p \in DOMAIN arg.pixels :
            LET l == ret[p] + 1
            IN  /\ l \in DOMAIN arg.centers
                /\ \A j \in DOMAIN arg.centers :
                       NoFarther(arg.pixels[p], arg.centers[l], arg.centers[j])
                /\ \A j \in DOMAIN arg.centers :
                       j < l => Nearer(arg.pixels[p], arg.centers[l], arg.centers[j])

----------------------------------------------------------------------------
(* SpecEncode: encode called on a background colour, a few foreground      *)
(* pixels and the options it reads.                                        *)

\* The most foreground pixels given to encode.
MaxFgPixels == 4

EncodePixels == { <<10, 10, 10>>, <<11, 10, 10>>, <<250, 0, 0>> }

\* -n and -q (percent; 5 is the default).
EncodeOptions == [num_colors : {2, 3}, quantize_fraction : {5, 50, 100}]

InitEncode ==
    /\ pc = "call"
    /\ arg \in [bg_color : {<<202, 202, 202>>},
                fg_pixels : SeqsBetween(EncodePixels, 0, MaxFgPixels),
                options : EncodeOptions]
    /\ ret = Unset
    /\ NoPipeline

\* encode(bg_color, fg_pixels, options) returns
EncodeReturns ==
    /\ pc = "call"
    /\ \E r \in encode(arg.bg_color, arg.fg_pixels, arg.options) :
        /\ ~ r.raised
        /\ ret' = r
    /\ pc' = "returned"
    /\ UNCHANGED arg
    /\ PipelineUnchanged

\* encode(bg_color, fg_pixels, options) raises
EncodeRaises ==
    /\ pc = "call"
    /\ \E r \in encode(arg.bg_color, arg.fg_pixels, arg.options) : r.raised
    /\ pc' = "raised"
    /\ UNCHANGED <<arg, ret>>
    /\ PipelineUnchanged

NextEncode == EncodeReturns \/ EncodeRaises

SpecEncode == InitEncode /\ [][NextEncode]_vars

\* C3 (as claimed): with at least num_colors - 1 foreground pixels and the
\* default sampling fraction, encode returns a palette of exactly num_colors
\* entries whose entry 0 is the background colour passed in.
C3_PaletteSize ==
    (/\ pc # "call"
     /\ Len(arg.fg_pixels) >= arg.options.num_colors - 1
     /\ arg.options.quantize_fraction = 5) =>
        /\ pc = "returned"
        /\ Len(ret.palette) = arg.options.num_colors
        /\ ret.palette[1] = arg.bg_color

----------------------------------------------------------------------------
(* SpecSmoosh: smoosh run on one image, step by step.                      *)

Paper == <<200, 200, 200>>

Ink == <<10, 10, 10>>

\* The most ink pixels in a 4x4 page, and the longest one-row strip.
MaxInk == 4

MaxStrip == 5

\* 4x4 pages of paper with ink at up to MaxInk positions.
Pages ==
    { [w |-> 4, h |-> 4, px |-> [i \in 1 .. 16 |-> IF i \in D THEN Ink ELSE Paper]] :
        D \in {E \in SUBSET (1 .. 16) : Cardinality(E) <= MaxInk} }

StripPixels == { <<128, 128, 128>>, <<30, 30, 30>>, <<230, 230, 230>> }

\* One-row images of greys.
Strips ==
    UNION { { [w |-> n, h |-> 1, px |-> p] : p \in [1 .. n -> StripPixels] } : n \in 1 .. MaxStrip }

\* The options smoosh reads: -v 25 and -s 20 (the defaults), -n 2 or 8 (the
\* default), -q 5 (the default) or 100, -S and -w.
SmooshOptions ==
    [value_threshold : {25}, sat_threshold : {20}, num_colors : {2, 8},
     quantize_fraction : {5, 100}, saturate : BOOLEAN, white_bg : BOOLEAN]

InitSmoosh ==
    /\ pc = "start"
    /\ arg \in [img : Pages \cup Strips, options : SmooshOptions]
    /\ ret = Unset
    /\ NoPipeline

\* bg_color = get_bg_color(downsampled, 6)
SmooshBackground ==
    /\ pc = "start"
    /\ bg_color' = get_bg_color(downsampled(arg.img), DefaultBits)
    /\ pc' = "bg_color"
    /\ UNCHANGED <<arg, ret, bg, labels, palette, biglabels>>

\* bg = (V_diff < value_threshold) & (S_diff < sat_threshold)
SmooshMask ==
    /\ pc = "bg_color"
    /\ bg' = background_mask(arg.img.px, bg_color, arg.options)
    /\ pc' = "masked"
    /\ UNCHANGED <<arg, ret, bg_color, labels, palette, biglabels>>

\* labels, palette = encode(bg_color, img[~bg], options)
SmooshEncode ==
    /\ pc = "masked"
    /\ \E r \in encode(bg_color, foreground(arg.img, bg), arg.options) :
        /\ ~ r.raised
        /\ labels' = r.labels
        /\ palette' = r.palette
    /\ pc' = "encoded"
    /\ UNCHANGED <<arg, ret, bg_color, bg, biglabels>>

\* encode raises: smoosh has no handler, the exception leaves it.
SmooshEncodeRaises ==
    /\ pc = "masked"
    /\ \E r \in encode(bg_color, foreground(arg.img, bg), arg.options) : r.raised
    /\ pc' = "raised"
    /\ UNCHANGED <<arg, ret, bg_color, bg, labels, palette, biglabels>>

\* The label map, the post-processed palette, and the image written from them.
SmooshWrite ==
    /\ pc = "encoded"
    /\ biglabels' = scatter_labels(bg, labels)
    /\ palette' \in postprocess(palette, arg.options)
    /\ pc' = "written"
    /\ UNCHANGED <<arg, ret, bg_color, bg, labels>>

NextSmoosh ==
    SmooshBackground \/ SmooshMask \/ SmooshEncode \/ SmooshEncodeRaises \/ SmooshWrite

SpecSmoosh == InitSmoosh /\ [][NextSmoosh]_vars

NumPixels(img, colour) == Cardinality({i \in DOMAIN img.px : img.px[i] = colour})

\* Every channel within one bucket (4) of the other colour's.
NearColour(a, b) == \A c \in 1 .. 3 : Abs(a[c] - b[c]) <= 4

\* The 4x4 image of the end-to-end scenario, with the default thresholds,
\* the default sampling fraction and two colours.
Scenario ==
    /\ arg.img.w = 4 /\ arg.img.h = 4
    /\ NumPixels(arg.img, Paper) = 12
    /\ NumPixels(arg.img, Ink) = 4
    /\ arg.options.value_threshold = 25
    /\ arg.options.sat_threshold = 20
    /\ arg.options.quantize_fraction = 5
    /\ arg.options.num_colors = 2

\* C4 (as claimed): in the scenario smoosh completes; the background estimate
\* is the quantized (200,200,200), the mask marks exactly the 12 light pixels,
\* the palette has two entries near (200,200,200) and (10,10,10), and the
\* label map is 0 at the light and 1 at the dark positions.
C4_EndToEnd ==
    Scenario =>
        /\ pc # "raised"
        /\ pc = "encoded" =>
              /\ bg_color = quantize(<<Paper>>, DefaultBits)[1]
              /\ \A i \in DOMAIN bg : bg[i] <=> arg.img.px[i] = Paper
              /\ Len(palette) = 2
              /\ NearColour(palette[1], Paper)
              /\ NearColour(palette[2], Ink)
        /\ pc = "written" =>
              /\ Len(palette) = 2
              /\ \A i \in DOMAIN biglabels :
                     biglabels[i] = (IF arg.img.px[i] = Paper THEN 0 ELSE 1)

\* The number of foreground pixels once the mask is known.
NumForeground == Cardinality({i \in DOMAIN bg : ~ bg[i]})

\* No foreground pixel, or fewer foreground pixels or training samples than
\* the num_colors - 1 clusters asked for.
Degenerate ==
    \/ NumForeground = 0
    \/ NumForeground < arg.options.num_colors - 1
    \/ num_train(NumForeground, arg.options) < arg.options.num_colors - 1

\* C5 (as claimed): on a degenerate input smoosh still ends normally, with a
\* palette of fewer than num_colors entries and a label map whose every index
\* refers to a palette entry; no error state is reached.
C5_DegenerateNeverCrashes ==
    (pc \in {"encoded", "raised", "written"} /\ Degenerate) =>
        /\ pc # "raised"
        /\ Len(palette) >= 1
        /\ Len(palette) < arg.options.num_colors
        /\ pc = "written" => \A i \in DOMAIN biglabels : biglabels[i] < Len(palette)

\* C9 (as claimed): with saturate on, the palette written has global minimum
\* 0 and global maximum 255 over all channels of all entries, also when all
\* channel values of the palette are equal, and the label map is the one
\* built from the mask and the labels.
C9_SaturateFullRange ==
    (pc = "written" /\ arg.options.saturate /\ ~ arg.options.white_bg) =>
        /\ SetMin(PaletteValues(palette)) = 0
        /\ SetMax(PaletteValues(palette)) = 255
        /\ biglabels = scatter_labels(bg, labels)

====
